---- MODULE Spec2Model ----
(***************************************************************************)
(* TallyBot (sagrawalx/tallybot): the standard labeling scheme             *)
(* (labelingscheme.py), the user list (userlist.py) and the handling of a  *)
(* message, the ingestion and tally of stream messages and the responses   *)
(* (tallybot.py).                                                          *)
(*                                                                         *)
(* Strings that the code inspects character by character (topics, message  *)
(* bodies, labels) are sequences of one-character strings.  Instants are   *)
(* seconds counted from midnight of the scheme's start_date.               *)
(***************************************************************************)
EXTENDS Integers, Sequences, FiniteSets, TLC

VARIABLES
    scheme,     \* StandardLabelingScheme: _start (due_time), _max_week, _due_days, _exceptions, _gaps
    text,       \* the topic or message string handed to topic_match / message_match
    label,      \* the StandardLabel last returned by a match (None when no label)
    mode,       \* which method returned label: "topic", "message", or "" before any call
    due,        \* the datetime last returned by StandardLabel.deadline()
    events,     \* the list of messages handed to do_tally
    tally,      \* the dict last returned by do_tally
    stream,     \* the messages posted to the class stream, by id (a deleted one marked absent)
    role,       \* the role the Zulip server holds for each user
    users,      \* UserList.users, as persisted in data_users_<specifier>.csv
    file,       \* the rows of data_msgs_<specifier>.csv
    messages,   \* the values of the dict get_messages returned to handle_message
    pc,         \* position of handle_message: "idle", "fetch" and "delete" (in the loop of
                \* clear_stream_mentions), "cleared", "got" (get_messages has returned)
    request,    \* the message handle_message was called with
    config,     \* the configuration get_config returned for it (NoConfig for None)
    response,   \* the response string last built
    sent,       \* the requests respond handed to client.send_message in this call
    mentions,   \* the messages the server serves under the narrow is:mentioned, oldest first
    batch,      \* clear_stream_mentions: result["messages"] of the last request
    found_oldest \* clear_stream_mentions: result["found_oldest"] of the last request

vars == <<scheme, text, label, mode, due, events, tally, stream, role, users, file, messages, pc,
          request, config, response, sent, mentions, batch, found_oldest>>

labelVars == <<scheme, text, label, mode, due>>
tallyVars == <<events, tally>>
replyVars == <<request, config, response, sent>>
clearVars == <<mentions, batch, found_oldest>>
botVars == <<stream, role, users, file, messages, pc, replyVars, clearVars>>

----------------------------------------------------------------------------
(* Bounds of the model                                                     *)

MaxGaps == 3        \* longest gaps list
MaxGapWeek == 4     \* largest value in a gaps list
MaxLabelWeek == 5   \* largest week number of a label handed to _deadline
MaxPieces == 2      \* number of fragments a text is concatenated from
MaxEvents == 3      \* longest list of messages handed to do_tally
MaxMsgs == 2        \* number of messages ever posted to the stream
MaxReactions == 2   \* longest list of reactions on a message
MaxMentions == 5    \* number of messages mentioning the bot
MentionsBefore == 2 \* num_before of clear_stream_mentions (5000 in the code): at most
                    \* this many messages in one batch

----------------------------------------------------------------------------
(* labelingscheme.py                                                       *)

SecondsPerHour == 3600
SecondsPerDay == 86400

\* "no label": the None returned by topic_match / message_match
None == [label |-> <<>>, week |-> -1, day |-> -1]

NoDue == -1

Digits == {"0", "1", "2", "3", "4", "5", "6", "7", "8", "9"}

DigitValue(c) ==
    CASE c = "0" -> 0 [] c = "1" -> 1 [] c = "2" -> 2 [] c = "3" -> 3 [] c = "4" -> 4
      [] c = "5" -> 5 [] c = "6" -> 6 [] c = "7" -> 7 [] c = "8" -> 8 [] c = "9" -> 9

mon == <<"m", "o", "n">>
tue == <<"t", "u", "e">>
wed == <<"w", "e", "d">>
thu == <<"t", "h", "u">>
fri == <<"f", "r", "i">>

\* the alternation (mon|tue|wed|thu|fri) of the regex
DayNames == {mon, tue, wed, thu, fri}

days_of_week(c) ==
    CASE c = mon -> 0 [] c = tue -> 1 [] c = wed -> 2 [] c = thu -> 3 [] c = fri -> 4

\* int(b) for a string of decimal digits
RECURSIVE int(_)
int(b) ==
    IF Len(b) = 0 THEN 0
    ELSE 10 * int(SubSeq(b, 1, Len(b) - 1)) + DigitValue(b[Len(b)])

\* end of the longest run of digits of s that starts at position i (i - 1 when s[i] is no digit)
RECURSIVE DigitRunEnd(_, _)
DigitRunEnd(s, i) ==
    IF i <= Len(s) /\ s[i] \in Digits THEN DigitRunEnd(s, i + 1) ELSE i - 1

\* The regex w(\d+)(mon|tue|wed|thu|fri) tried at position i of s: the position of
\* the last character of the match, 0 when there is none.  \d+ is greedy and a
\* shorter run of digits is followed by a digit, so only the longest run can match.
regex(s, i) ==
    IF i <= Len(s) /\ s[i] = "w"
    THEN LET j == DigitRunEnd(s, i + 1)
         IN  IF j >= i + 1 /\ j + 3 <= Len(s) /\ SubSeq(s, j + 1, j + 3) \in DayNames
             THEN j + 3 ELSE 0
    ELSE 0

\* The same regex inside square brackets, tried at position i: the position of "]".
bracket_regex(s, i) ==
    IF i <= Len(s) /\ s[i] = "["
    THEN LET e == regex(s, i + 1)
         IN  IF e > 0 /\ e + 1 <= Len(s) /\ s[e + 1] = "]" THEN e + 1 ELSE 0
    ELSE 0

\* re.search replaced by a scan that keeps the last position where the pattern matches
RECURSIVE search_last(_, _, _)
search_last(bracketed, s, i) ==
    IF i > Len(s) THEN 0
    ELSE LET later == search_last(bracketed, s, i + 1)
         IN  IF later > 0 THEN later
             ELSE IF (IF bracketed THEN bracket_regex(s, i) ELSE regex(s, i)) > 0 THEN i
             ELSE 0

\* re.search: scans the start positions from the left and stops at the first one
\* where the pattern matches; 0 when none does.
RECURSIVE search(_, _, _)
search(bracketed, s, i) ==
    IF i > Len(s) THEN 0
    ELSE IF (IF bracketed THEN bracket_regex(s, i) ELSE regex(s, i)) > 0 THEN i
    ELSE search(bracketed, s, i + 1)

StandardLabel(a, week, day) == [label |-> a, week |-> week, day |-> day]

\* _create_label with the week test written >= instead of >
_create_label_ge(sch, a, b, c) ==
    IF a \in sch.exceptions THEN None
    ELSE IF int(b) >= sch.max_week THEN None
    ELSE IF c \notin sch.due_days THEN None
    ELSE StandardLabel(a, int(b), days_of_week(c))

_create_label(sch, a, b, c) ==
    IF a \in sch.exceptions THEN None
    ELSE IF int(b) > sch.max_week THEN None
    ELSE IF c \notin sch.due_days THEN None
    ELSE StandardLabel(a, int(b), days_of_week(c))

\* groups of the bare regex matched at position i: the whole match, the digits, the day
message_match(sch, message) ==
    LET i == search(FALSE, message, 1)
    IN  IF i = 0 THEN None
        ELSE LET e == regex(message, i)
             IN  _create_label(sch, SubSeq(message, i, e),
                               SubSeq(message, i + 1, e - 3),
                               SubSeq(message, e - 2, e))

topic_match(sch, topic) ==
    LET i == search(TRUE, topic, 1)
    IN  IF i = 0 THEN None
        ELSE LET e == bracket_regex(topic, i) - 1
             IN  _create_label(sch, SubSeq(topic, i + 1, e),
                               SubSeq(topic, i + 2, e - 3),
                               SubSeq(topic, e - 2, e))

\* the gaps loop comparing every gap with the week number of the label, not the running one
shift_week_raw(gaps, week) ==
    week + Cardinality({i \in DOMAIN gaps : week >= gaps[i]})

\* the gaps loop with the test written > instead of >=
RECURSIVE shift_week_gt(_, _)
shift_week_gt(gaps, week) ==
    IF Len(gaps) = 0 THEN week
    ELSE shift_week_gt(Tail(gaps), IF week > Head(gaps) THEN week + 1 ELSE week)

\* the gaps loop with the test turned around: week <= g
RECURSIVE shift_week_le(_, _)
shift_week_le(gaps, week) ==
    IF Len(gaps) = 0 THEN week
    ELSE shift_week_le(Tail(gaps), IF week <= Head(gaps) THEN week + 1 ELSE week)

\* the loop over self._gaps: week += 1 whenever the running week >= g
RECURSIVE shift_week(_, _)
shift_week(gaps, week) ==
    IF Len(gaps) = 0 THEN week
    ELSE shift_week(Tail(gaps), IF week >= Head(gaps) THEN week + 1 ELSE week)

\* self._start: midnight of start_date plus due_time hours
_start(sch) == SecondsPerHour * sch.due_time

_deadline(sch, lbl) ==
    _start(sch) + SecondsPerDay * (7 * (shift_week(sch.gaps, lbl.week) - 1) + lbl.day)

----------------------------------------------------------------------------
(* Calls of the labeling scheme                                            *)

\* topic_match(topic) on the scheme
TopicMatch ==
    /\ mode = ""
    /\ label' = topic_match(scheme, text)
    /\ mode' = "topic"
    /\ UNCHANGED <<scheme, text, due, tallyVars, botVars>>

\* message_match(message) on the scheme
MessageMatch ==
    /\ mode = ""
    /\ label' = message_match(scheme, text)
    /\ mode' = "message"
    /\ UNCHANGED <<scheme, text, due, tallyVars, botVars>>

\* label.deadline() on a label the scheme returned
Deadline ==
    /\ label # None
    /\ due = NoDue
    /\ due' = _deadline(scheme, label)
    /\ UNCHANGED <<scheme, text, label, mode, tallyVars, botVars>>

----------------------------------------------------------------------------
(* Inputs of the labeling scheme                                           *)

DigitOf(n) ==
    CASE n = 0 -> "0" [] n = 1 -> "1" [] n = 2 -> "2" [] n = 3 -> "3" [] n = 4 -> "4"
      [] n = 5 -> "5" [] n = 6 -> "6" [] n = 7 -> "7" [] n = 8 -> "8" [] n = 9 -> "9"

\* decimal digits of a natural number
RECURSIVE str(_)
str(n) == IF n < 10 THEN <<DigitOf(n)>> ELSE str(n \div 10) \o <<DigitOf(n % 10)>>

\* the label text w<week><day>
LabelText(week, day) == <<"w">> \o str(week) \o day

RECURSIVE SeqsUpTo(_, _)
SeqsUpTo(S, n) ==
    IF n = 0 THEN {<<>>}
    ELSE LET shorter == SeqsUpTo(S, n - 1)
         IN  shorter \cup {Append(q, x) : q \in {r \in shorter : Len(r) = n - 1}, x \in S}

GapLists == SeqsUpTo((-1)..MaxGapWeek, MaxGaps)

DueTimes == {0, 23}

\* schemes whose gaps vary; every week up to MaxLabelWeek and every weekday is due
DeadlineSchemes ==
    [due_time : DueTimes, max_week : {MaxLabelWeek}, due_days : {DayNames},
     exceptions : {{}}, gaps : GapLists]

DeadlineTexts == {LabelText(w, d) : w \in 0..MaxLabelWeek, d \in DayNames}

\* fragments the texts of the matching specification are concatenated from
Pieces ==
    { <<"w">>, <<"1">>, <<"[">>, <<"]">>, mon,
      LabelText(1, mon), LabelText(2, mon), LabelText(1, tue),
      <<"w", "0", "1">> \o mon,
      <<"[">> \o LabelText(1, mon) \o <<"]">>,
      <<"[">> \o LabelText(2, mon) \o <<"]">>,
      <<"[">> \o LabelText(1, tue) \o <<"]">> }

RECURSIVE Concat(_)
Concat(q) == IF Len(q) = 0 THEN <<>> ELSE Head(q) \o Concat(Tail(q))

MatchTexts == {Concat(q) : q \in SeqsUpTo(Pieces, MaxPieces)}

\* schemes whose well-formedness parameters vary
MatchSchemes ==
    [due_time : {23}, max_week : {1, 2}, due_days : {{mon}, {mon, tue}},
     exceptions : {{}, {LabelText(1, mon)}}, gaps : {<<>>}]

----------------------------------------------------------------------------
(* Python dicts keep their keys in insertion order: a dict is a sequence   *)
(* of <<key, value>> pairs with no key twice.                              *)

DictKeys(d) == {d[i][1] : i \in DOMAIN d}

DictGet(d, k) == d[CHOOSE i \in DOMAIN d : d[i][1] = k][2]

\* d[k] = v: a key already present keeps its place, a new one goes last
DictSet(d, k, v) ==
    IF k \in DictKeys(d)
    THEN [i \in DOMAIN d |-> IF d[i][1] = k THEN <<k, v>> ELSE d[i]]
    ELSE Append(d, <<k, v>>)

\* list(d.values())
RECURSIVE DictValues(_)
DictValues(d) == IF Len(d) = 0 THEN <<>> ELSE <<Head(d)[2]>> \o DictValues(Tail(d))

----------------------------------------------------------------------------
(* tallybot.py: do_tally                                                   *)

\* last write wins: the flag of the pair is that of the latest message
credit_overwrite(old, m) == m.on_time /\ m.valid

\* initial[x][a] = initial[x][a] or (m["on_time"] and m["valid"])
credit_update(old, m) == old \/ (m.on_time /\ m.valid)

\* the first loop of do_tally: initial[x][a], for the messages in list order
RECURSIVE initial_tally(_, _)
initial_tally(msgs, initial) ==
    IF Len(msgs) = 0 THEN initial
    ELSE LET m == Head(msgs)
             x == m.sender_id
             a == m.label
             i1 == IF x \in DictKeys(initial) THEN initial ELSE DictSet(initial, x, <<>>)
             ix == DictGet(i1, x)
             ix1 == IF a \in DictKeys(ix) THEN ix ELSE DictSet(ix, a, FALSE)
             ix2 == DictSet(ix1, a, credit_update(DictGet(ix1, a), m))
         IN  initial_tally(Tail(msgs), DictSet(i1, x, ix2))

\* the comprehension without its condition: every label of the sender
RECURSIVE labels_all(_, _)
labels_all(ix, want) ==
    IF Len(ix) = 0 THEN <<>> ELSE <<Head(ix)[1]>> \o labels_all(Tail(ix), want)

\* [a for a, v in initial[x].items() if v == want]
RECURSIVE labels_with(_, _)
labels_with(ix, want) ==
    IF Len(ix) = 0 THEN <<>>
    ELSE (IF Head(ix)[2] = want THEN <<Head(ix)[1]>> ELSE <<>>) \o labels_with(Tail(ix), want)

\* the second loop of do_tally
RECURSIVE consolidate(_)
consolidate(initial) ==
    IF Len(initial) = 0 THEN <<>>
    ELSE << <<Head(initial)[1],
              [credit |-> labels_with(Head(initial)[2], TRUE),
               no_credit |-> labels_with(Head(initial)[2], FALSE)]>> >>
         \o consolidate(Tail(initial))

do_tally(msgs) == consolidate(initial_tally(msgs, <<>>))

\* do_tally(messages) called on a list of messages
DoTally ==
    /\ tally' = do_tally(events)
    /\ UNCHANGED <<events, labelVars, botVars>>

\* the messages do_tally is given: sender, label and the two flags of each
TallySenders == {7, 8}
TallyLabels == {<<"w", "2">> \o wed, <<"w", "1">> \o mon}
TallyEvents == [sender_id : TallySenders, label : TallyLabels, on_time : BOOLEAN, valid : BOOLEAN]

----------------------------------------------------------------------------
(* userlist.py and the Zulip server                                        *)

UserIds == {1, 2, 3}

\* user 1 is a student, user 2 a moderator, user 3 the server's Notification Bot
FullName(u) == CASE u = 1 -> "Ada" [] u = 2 -> "Turing" [] u = 3 -> "Notification Bot"

InitialRole == (1 :> 400) @@ (2 :> 300) @@ (3 :> 400)

\* the delivery_email the server reports for a user
DeliveryEmail(u) ==
    CASE u = 1 -> "ada@example.edu" [] u = 2 -> "turing@example.edu" [] u = 3 -> "bot@example.edu"

\* a user id that is not a key of UserList.users
NoUsers == [u \in UserIds |-> 0]

\* UserList.get(user_id): the stored role if the id is a key, else get_from_client,
\* which asks the server and stores the answer.  ul is UserList.users (user id -> role,
\* 0 for an id that is no key), rl the roles the server holds.
UserList_get(ul, rl, u) ==
    IF ul[u] # 0 THEN [role |-> ul[u], users |-> ul]
    ELSE [role |-> rl[u], users |-> [ul EXCEPT ![u] = rl[u]]]

NumBefore == 5000

NoMessage == [id |-> 0, present |-> FALSE, sender_id |-> 0, subject |-> <<>>,
              timestamp |-> 0, reactions |-> <<>>]

Max(a, b) == IF a >= b THEN a ELSE b

\* client.get_messages with num_before = 5000, num_after = 0 and the stream narrow:
\* the newest NumBefore messages at or before the anchor (0 stands for "newest"),
\* oldest first, and found_oldest when the batch reaches the oldest message
client_get_messages(strm, anchor) ==
    LET all == SelectSeq(strm, LAMBDA m : m.present /\ (anchor = 0 \/ m.id <= anchor))
        n == Len(all)
    IN  [messages |-> SubSeq(all, Max(1, n - NumBefore + 1), n),
         found_oldest |-> n <= NumBefore]

----------------------------------------------------------------------------
(* tallybot.py: the content of a request and the configuration it selects  *)

UpperCase == <<"A", "B", "C", "D", "E", "F", "G", "H", "I", "J", "K", "L", "M",
               "N", "O", "P", "Q", "R", "S", "T", "U", "V", "W", "X", "Y", "Z">>
LowerCase == <<"a", "b", "c", "d", "e", "f", "g", "h", "i", "j", "k", "l", "m",
               "n", "o", "p", "q", "r", "s", "t", "u", "v", "w", "x", "y", "z">>

\* x.lower()
lower(x) ==
    [i \in 1..Len(x) |->
        IF \E k \in DOMAIN UpperCase : UpperCase[k] = x[i]
        THEN LowerCase[CHOOSE k \in DOMAIN UpperCase : UpperCase[k] = x[i]]
        ELSE x[i]]

\* string.punctuation, but for the backquote, which a TLA+ string cannot hold
punctuation ==
    {"!", "\"", "#", "$", "%", "&", "'", "(", ")", "*", "+", ",", "-", ".", "/", ":",
     ";", "<", "=", ">", "?", "@", "[", "\\", "]", "^", "_", "{", "|", "}", "~"}

\* the characters str.strip() removes
whitespace == {" ", "\t", "\n", "\r", "\f"}

RECURSIVE lstrip(_)
lstrip(x) == IF Len(x) > 0 /\ Head(x) \in whitespace THEN lstrip(Tail(x)) ELSE x

RECURSIVE rstrip(_)
rstrip(x) ==
    IF Len(x) > 0 /\ x[Len(x)] \in whitespace THEN rstrip(SubSeq(x, 1, Len(x) - 1)) ELSE x

\* x.strip()
strip(x) == rstrip(lstrip(x))

\* minimize(x): lower case, punctuation removed, stripped
minimize(x) == strip(SelectSeq(lower(x), LAMBDA c : c \notin punctuation))

\* the positions at which x occurs in s
Occurrences(s, x) == {j \in 1..(Len(s) - Len(x) + 1) : SubSeq(s, j, j + Len(x) - 1) = x}

\* x in s
contains(s, x) == Len(x) = 0 \/ Occurrences(s, x) # {}

\* s.replace(x, ""): the occurrences of x removed, leftmost first, none overlapping
RECURSIVE replace(_, _)
replace(s, x) ==
    IF Len(x) = 0 \/ Occurrences(s, x) = {} THEN s
    ELSE LET j == CHOOSE k \in Occurrences(s, x) : \A l \in Occurrences(s, x) : k <= l
         IN  SubSeq(s, 1, j - 1) \o replace(SubSeq(s, j + Len(x), Len(s)), x)

\* the word whose presence makes handle_message clear the private history
clear == <<"c", "l", "e", "a", "r">>

\* config.yml: one class stream, with the labeler_config of BotScheme
Configs ==
    <<[stream_name |-> <<"M", "a", "t", "h", " ", "1", "1">>,
       stream_specifier |-> <<"s", "p", "2", "3">>]>>

\* get_config returning None
NoConfig == [stream_name |-> <<>>, stream_specifier |-> <<>>]

\* get_config, private message, one configuration: the specifying strings tried in
\* the order [stream_specifier, minimize(stream_name)]; [config, content]
RECURSIVE try_names(_, _, _)
try_names(c, names, content) ==
    IF Len(names) = 0 THEN [config |-> NoConfig, content |-> content]
    ELSE LET m == strip(replace(content, Head(names)))
         IN  IF Len(m) < Len(content) THEN [config |-> c, content |-> m]
             ELSE try_names(c, Tail(names), content)

\* get_config(config_file, message): [config, content], content the message's content
\* as get_config leaves it
RECURSIVE get_config(_, _)
get_config(configs, message) ==
    IF Len(configs) = 0 THEN [config |-> NoConfig, content |-> message.content]
    ELSE LET c == Head(configs)
         IN  IF message.type = "stream"
             THEN IF c.stream_name = message.display_recipient
                  THEN [config |-> c, content |-> message.content]
                  ELSE get_config(Tail(configs), message)
             ELSE IF message.type = "private"
             THEN LET got == try_names(c, <<c.stream_specifier, minimize(c.stream_name)>>,
                                       message.content)
                  IN  IF got.config # NoConfig THEN got
                      ELSE get_config(Tail(configs), message)
             ELSE [config |-> NoConfig, content |-> message.content]

----------------------------------------------------------------------------
(* tallybot.py: the responses.  A response is the sequence of its pieces:  *)
(* the line break "\n" is a piece of its own, the only character respond   *)
(* looks at, and every other piece is text without a line break.           *)

num_lines == 150

\* respond(client, interloc, response): the requests handed to client.send_message,
\* i the index into response, lines and msg as in the loop
RECURSIVE respond_from(_, _, _, _, _)
respond_from(user_id, resp, i, lines, msg) ==
    IF i > Len(resp) THEN <<>>
    ELSE LET taken == lines < num_lines
             msg1 == IF taken THEN Append(msg, resp[i]) ELSE msg
             lines1 == IF taken /\ resp[i] = "\n" THEN lines + 1 ELSE lines
         IN  IF lines1 = num_lines \/ i = Len(resp)
             THEN <<[type |-> "private", to |-> <<user_id>>, content |-> msg1]>>
                  \o respond_from(user_id, resp, i + 1, 0, <<>>)
             ELSE respond_from(user_id, resp, i + 1, lines1, msg1)

respond(user_id, resp) == respond_from(user_id, resp, 1, 0, <<>>)

\* ", ".join(labels)
RECURSIVE join(_)
join(labels) ==
    IF Len(labels) = 0 THEN <<>>
    ELSE IF Len(labels) = 1 THEN Head(labels)
    ELSE Head(labels) \o <<", ">> \o join(Tail(labels))

\* individual_count(tally, interloc_id)
individual_count(t, interloc_id) ==
    LET interloc_tally == IF interloc_id \in DictKeys(t) THEN DictGet(t, interloc_id)
                          ELSE [credit |-> <<>>, no_credit |-> <<>>]
    IN  <<"Current RQ Count: ">> \o str(Len(interloc_tally.credit))
        \o (IF Len(interloc_tally.credit) > 0
            THEN <<"\n", "On-time and Valid RQs: ">> \o join(interloc_tally.credit)
            ELSE <<>>)
        \o (IF Len(interloc_tally.no_credit) > 0
            THEN <<"\n", "Late or Invalid RQs: ">> \o join(interloc_tally.no_credit)
            ELSE <<>>)

\* the count of a row counting every label of the sender
row_count_all(tx) == Len(tx.credit) + Len(tx.no_credit)

\* all_counts: count = len(tally[x]["credit"])
row_count(tx) == Len(tx.credit)

\* all_counts, the loop over tally.keys(): [response, users], users.get(x) storing
\* the users it had to ask the server for
RECURSIVE all_counts_rows(_, _, _, _)
all_counts_rows(t, ul, rl, resp) ==
    IF Len(t) = 0 THEN [response |-> resp, users |-> ul]
    ELSE LET x == Head(t)[1]
             u == UserList_get(ul, rl, x)
         IN  all_counts_rows(Tail(t), u.users, rl,
                 resp \o <<FullName(x), ",", DeliveryEmail(x), ",">>
                      \o str(row_count(Head(t)[2])) \o <<"\n">>)

\* all_counts(tally, users)
all_counts(t, ul, rl) == all_counts_rows(t, ul, rl, <<"name,email,count", "\n">>)

\* the response of handle_message when get_config returns None
NoConfigText == "No configuration data was matched. You must either (a) tag me ..."

----------------------------------------------------------------------------
(* tallybot.py: clear_stream_mentions                                      *)

\* client.get_messages with anchor "newest", num_before = MentionsBefore, num_after = 0
\* and the narrow is:mentioned: the newest MentionsBefore messages, oldest first, and
\* found_oldest when the batch reaches the oldest one
client_get_mentions(ms) ==
    [messages |-> SubSeq(ms, Max(1, Len(ms) - MentionsBefore + 1), Len(ms)),
     found_oldest |-> Len(ms) <= MentionsBefore]

\* for m in batch: if m["type"] == "stream": client.delete_message(m["id"])
delete_stream_messages(ms, got) ==
    SelectSeq(ms, LAMBDA m : ~(\E i \in DOMAIN got : got[i].id = m.id /\ got[i].type = "stream"))

----------------------------------------------------------------------------
(* tallybot.py: get_messages                                               *)

invalid_emoji == "x"

\* str(bool) as DictWriter writes it
PyStr(b) == IF b THEN "True" ELSE "False"

\* a row as DictWriter writes it
WriteRow(msg) == [msg EXCEPT !.on_time = PyStr(msg.on_time), !.valid = PyStr(msg.valid)]

\* a row as the loading loop converts it
ReadRow(row) == [row EXCEPT !.on_time = (row.on_time = "True"), !.valid = (row.valid = "True")]

\* messages[id] = msg written as an append to a list of records
store_append(msgs, id, msg) == Append(msgs, <<id, msg>>)

\* messages[m["id"]] = msg
store(msgs, id, msg) == DictSet(msgs, id, msg)

\* "Load messages from backup file"
RECURSIVE load(_, _)
load(rows, msgs) ==
    IF Len(rows) = 0 THEN msgs
    ELSE load(Tail(rows), store(msgs, Head(rows).id, ReadRow(Head(rows))))

\* "Write data to file"
write(values) == [i \in DOMAIN values |-> WriteRow(values[i])]

sender_is_moderator(r) == r <= 300

\* the role of the reactor never looked at
reactor_is_anyone(r) == TRUE

reactor_is_moderator(r) == r <= 300

\* the loop over m["reactions"], with its break: [valid, users]
RECURSIVE check_valid(_, _, _)
check_valid(reactions, ul, rl) ==
    IF Len(reactions) = 0 THEN [valid |-> TRUE, users |-> ul]
    ELSE LET r == Head(reactions)
         IN  IF r.emoji_name = invalid_emoji
             THEN LET reactor == UserList_get(ul, rl, r.user)
                  IN  IF reactor_is_moderator(reactor.role)
                      THEN [valid |-> FALSE, users |-> reactor.users]
                      ELSE check_valid(Tail(reactions), reactor.users, rl)
             ELSE check_valid(Tail(reactions), ul, rl)

\* timestamp < label.deadline()
on_time_strict(timestamp, deadline) == timestamp < deadline

\* timestamp <= label.deadline()
on_time(timestamp, deadline) == timestamp <= deadline

\* the body of "for m in batch": [messages, users]
process_message(sch, m, msgs, ul, rl) ==
    IF FullName(m.sender_id) = "Notification Bot" THEN [messages |-> msgs, users |-> ul]
    ELSE LET sender == UserList_get(ul, rl, m.sender_id)
         IN  IF sender_is_moderator(sender.role) THEN [messages |-> msgs, users |-> sender.users]
             ELSE LET lbl == topic_match(sch, m.subject)
                  IN  IF lbl = None THEN [messages |-> msgs, users |-> sender.users]
                      ELSE LET v == check_valid(m.reactions, sender.users, rl)
                               msg == [id |-> m.id,
                                       sender_id |-> m.sender_id,
                                       sender_name |-> FullName(m.sender_id),
                                       label |-> lbl.label,
                                       timestamp |-> m.timestamp,
                                       on_time |-> on_time(m.timestamp, _deadline(sch, lbl)),
                                       valid |-> v.valid]
                           IN  [messages |-> store(msgs, m.id, msg), users |-> v.users]

RECURSIVE process_batch(_, _, _, _, _)
process_batch(sch, rest, msgs, ul, rl) ==
    IF Len(rest) = 0 THEN [messages |-> msgs, users |-> ul]
    ELSE LET one == process_message(sch, Head(rest), msgs, ul, rl)
         IN  process_batch(sch, Tail(rest), one.messages, one.users, rl)

\* get_messages for a stream the first request reaches the oldest message of
\* (found_oldest ends the loop after one batch): [messages, users], messages the dict
\* that is written to the file and whose values are returned
get_messages(sch, rows, strm, ul, rl) ==
    process_batch(sch, client_get_messages(strm, 0).messages, load(rows, <<>>), ul, rl)

\* handle_message up to the return of get_messages (lines 77-85), for a request whose
\* configuration has been matched.  When the first batch does not reach the oldest
\* message the next request is anchored at batch[-1]["id"], the newest id, and the
\* loop does not end: no step.
GetMessages ==
    /\ pc = "idle"
    /\ config # NoConfig
    /\ client_get_messages(stream, 0).found_oldest
    /\ LET got == get_messages(scheme, file, stream, users, role)
       IN  /\ file' = write(DictValues(got.messages))
           /\ messages' = DictValues(got.messages)
           /\ users' = got.users
    /\ response' = <<>>
    /\ sent' = <<>>
    /\ pc' = "got"
    /\ UNCHANGED <<stream, role, request, config, clearVars, tallyVars, labelVars>>

\* the methods userlist.py defines on UserList
UserList_methods == {"__init__", "get", "get_from_client", "keys"}

\* handle_message after get_messages (lines 93-115): tally = do_tally(messages), then
\* the response.  interloc is the server's record of the sender.  A member gets
\* individual_count.  For a moderator line 102 calls users.find, which UserList does
\* not define: the AttributeError is no KeyError, the finally clause returns None,
\* and lines 104-115 are not reached.
TallyAndRespond ==
    /\ pc = "got"
    /\ tally' = do_tally(messages)
    /\ messages' = <<>>
    /\ IF role[request.sender_id] > 300
       THEN /\ response' = individual_count(tally', request.sender_id)
            /\ sent' = sent \o respond(request.sender_id, response')
       ELSE /\ "find" \notin UserList_methods
            /\ UNCHANGED <<response, sent>>
    /\ pc' = "idle"
    /\ UNCHANGED <<stream, role, users, file, events, request, config, clearVars, labelVars>>

----------------------------------------------------------------------------
(* What the members and the server do to the stream between two calls of   *)
(* handle_message                                                          *)

\* the labeler_config of the stream: term starts on a Monday, due at 23:00, week 3 a gap
BotScheme ==
    [due_time |-> 23, max_week |-> 10, due_days |-> {mon, wed, fri},
     exceptions |-> {}, gaps |-> <<3>>]

Topic(week, day) == <<"[">> \o LabelText(week, day) \o <<"]">>

\* two topics with a due label, one whose label is no due day, one with no label
Subjects == {Topic(1, mon), Topic(2, mon), Topic(1, tue), <<"c", "h", "a", "t">>}

\* the deadline of w1mon, and one second later
PostTimes ==
    LET d == _deadline(BotScheme, StandardLabel(LabelText(1, mon), 1, 0)) IN {d, d + 1}

ReactionKinds == [emoji_name : {invalid_emoji, "ok"}, user : {1, 2}]

Ids == DOMAIN stream

\* a user sends a message to the stream; the server numbers and stamps it
Post(u, subject, ts) ==
    /\ pc = "idle"
    /\ Len(stream) < MaxMsgs
    /\ Len(stream) > 0 => ts >= stream[Len(stream)].timestamp
    /\ stream' = Append(stream, [id |-> Len(stream) + 1, present |-> TRUE, sender_id |-> u,
                                 subject |-> subject, timestamp |-> ts, reactions |-> <<>>])
    /\ UNCHANGED <<role, users, file, messages, pc, replyVars, clearVars, tallyVars, labelVars>>

\* the topic of a message is edited
EditTopic(id, subject) ==
    /\ pc = "idle"
    /\ stream[id].present
    /\ stream[id].subject # subject
    /\ stream' = [stream EXCEPT ![id].subject = subject]
    /\ UNCHANGED <<role, users, file, messages, pc, replyVars, clearVars, tallyVars, labelVars>>

\* a message is deleted; its id is not given again
DeleteMessage(id) ==
    /\ pc = "idle"
    /\ stream[id].present
    /\ stream' = [stream EXCEPT ![id] = NoMessage]
    /\ UNCHANGED <<role, users, file, messages, pc, replyVars, clearVars, tallyVars, labelVars>>

\* a member is made a moderator
ChangeRole(u) ==
    /\ pc = "idle"
    /\ role[u] > 300
    /\ FullName(u) # "Notification Bot"
    /\ role' = [role EXCEPT ![u] = 300]
    /\ UNCHANGED <<stream, users, file, messages, pc, replyVars, clearVars, tallyVars, labelVars>>

\* a user reacts to a message; the server keeps one reaction per user and emoji
AddReaction(id, r) ==
    /\ pc = "idle"
    /\ stream[id].present
    /\ Len(stream[id].reactions) < MaxReactions
    /\ \A i \in DOMAIN stream[id].reactions : stream[id].reactions[i] # r
    /\ stream' = [stream EXCEPT ![id].reactions = Append(@, r)]
    /\ UNCHANGED <<role, users, file, messages, pc, replyVars, clearVars, tallyVars, labelVars>>

\* a user takes a reaction back
RemoveReaction(id, i) ==
    /\ pc = "idle"
    /\ stream[id].present
    /\ i \in DOMAIN stream[id].reactions
    /\ stream' = [stream EXCEPT ![id].reactions =
                      SubSeq(@, 1, i - 1) \o SubSeq(@, i + 1, Len(@))]
    /\ UNCHANGED <<role, users, file, messages, pc, replyVars, clearVars, tallyVars, labelVars>>

----------------------------------------------------------------------------
(* tallybot.py: handle_message, from the arrival of a message               *)

NoRequest == [sender_id |-> 0, type |-> "", display_recipient |-> <<>>, content |-> <<>>]

\* a private message of the student whose configuration has been matched and removed
StudentRequest == [sender_id |-> 1, type |-> "private", display_recipient |-> <<>>,
                   content |-> <<>>]

\* contents of messages sent to the bot: "sp23", "SP23 ada!", "Clear sp23", "hi",
\* "Math 11"
RequestTexts ==
    {<<"s", "p", "2", "3">>,
     <<"S", "P", "2", "3", " ", "a", "d", "a", "!">>,
     <<"C", "l", "e", "a", "r", " ", "s", "p", "2", "3">>,
     <<"h", "i">>,
     <<"M", "a", "t", "h", " ", "1", "1">>}

\* the stream a stream message was sent to: the class stream or another one
Recipients == {Configs[1].stream_name, <<"o", "t", "h", "e", "r">>}

\* messages the student and the moderator send to the bot
Requests ==
    [sender_id : {1, 2}, type : {"private"}, display_recipient : {<<>>}, content : RequestTexts]
    \cup [sender_id : {1, 2}, type : {"stream"}, display_recipient : Recipients,
          content : RequestTexts]

\* the id the server gives the next message mentioning the bot
NextMentionId == IF Len(mentions) = 0 THEN 1 ELSE mentions[Len(mentions)].id + 1

\* the server hands message m to handle_message; a stream message reaches the bot
\* because it mentions it, a private message may mention it
Receive(m, mentioning) ==
    /\ pc = "idle"
    /\ m.type = "stream" => mentioning
    /\ mentioning => Len(mentions) < MaxMentions
    /\ mentions' = IF mentioning THEN Append(mentions, [id |-> NextMentionId, type |-> m.type])
                   ELSE mentions
    /\ request' = m
    /\ config' = NoConfig
    /\ response' = <<>>
    /\ sent' = <<>>
    /\ batch' = <<>>
    /\ found_oldest' = FALSE
    /\ pc' = "fetch"
    /\ UNCHANGED <<stream, role, users, file, messages, tallyVars, labelVars>>

\* clear_stream_mentions, the request of one turn of the loop (lines 160-169); the
\* anchor computed on line 160 is not used, the request asks for "newest"
ClearFetch ==
    /\ pc = "fetch"
    /\ LET result == client_get_mentions(mentions)
       IN  /\ batch' = result.messages
           /\ found_oldest' = result.found_oldest
    /\ pc' = "delete"
    /\ UNCHANGED <<stream, role, users, file, messages, mentions, replyVars, tallyVars,
                   labelVars>>

\* clear_stream_mentions, the deletions of one turn (lines 172-174) and the loop test
ClearDelete ==
    /\ pc = "delete"
    /\ mentions' = delete_stream_messages(mentions, batch)
    /\ pc' = IF found_oldest THEN "cleared" ELSE "fetch"
    /\ UNCHANGED <<stream, role, users, file, messages, batch, found_oldest, replyVars,
                   tallyVars, labelVars>>

\* handle_message from minimize to the return of get_messages (lines 43-85): a
\* content with "clear" ends the call after clear_pm_history (the private history is
\* no state of the model), no configuration ends it after the response, and a
\* matched configuration goes on to get_messages
Route ==
    /\ pc = "cleared"
    /\ LET content == minimize(request.content)
           got == get_config(Configs, [request EXCEPT !.content = content])
       IN  IF contains(content, clear)
           THEN /\ request' = [request EXCEPT !.content = content]
                /\ pc' = "idle"
                /\ UNCHANGED <<config, response, sent, users, file, messages>>
           ELSE IF got.config = NoConfig
           THEN /\ request' = [request EXCEPT !.content = got.content]
                /\ response' = <<NoConfigText>>
                /\ sent' = sent \o respond(request.sender_id, response')
                /\ pc' = "idle"
                /\ UNCHANGED <<config, users, file, messages>>
           ELSE /\ request' = [request EXCEPT !.content = got.content]
                /\ config' = got.config
                /\ client_get_messages(stream, 0).found_oldest
                /\ LET msgs == get_messages(scheme, file, stream, users, role)
                   IN  /\ file' = write(DictValues(msgs.messages))
                       /\ messages' = DictValues(msgs.messages)
                       /\ users' = msgs.users
                /\ pc' = "got"
                /\ UNCHANGED <<response, sent>>
    /\ UNCHANGED <<stream, role, clearVars, tallyVars, labelVars>>

\* all_counts(tally, users) on the dict do_tally returned for events
AllCounts ==
    /\ tally = do_tally(events)
    /\ LET r == all_counts(tally, users, role)
       IN  /\ response' = r.response
           /\ users' = r.users
    /\ UNCHANGED <<stream, role, file, messages, pc, request, config, sent, clearVars,
                   tallyVars, labelVars>>

----------------------------------------------------------------------------
(* Specifications                                                          *)

LabelIdle ==
    /\ scheme = BotScheme
    /\ text = <<>>
    /\ label = None
    /\ mode = ""
    /\ due = NoDue

TallyIdle ==
    /\ events = <<>>
    /\ tally = <<>>

BotIdle ==
    /\ stream = <<>>
    /\ role = InitialRole
    /\ users = NoUsers
    /\ file = <<>>
    /\ messages = <<>>
    /\ pc = "idle"
    /\ request = StudentRequest
    /\ config = Configs[1]
    /\ response = <<>>
    /\ sent = <<>>
    /\ mentions = <<>>
    /\ batch = <<>>
    /\ found_oldest = FALSE

\* the bot and its stream: messages are posted, edited and deleted, members are
\* promoted, and handle_message runs in between
Init == LabelIdle /\ TallyIdle /\ BotIdle

Next ==
    \/ \E u \in UserIds, subject \in Subjects, ts \in PostTimes : Post(u, subject, ts)
    \/ \E id \in Ids, subject \in Subjects : EditTopic(id, subject)
    \/ \E id \in Ids : DeleteMessage(id)
    \/ \E u \in UserIds : ChangeRole(u)
    \/ GetMessages
    \/ TallyAndRespond

Spec == Init /\ [][Next]_vars

\* the bot and one labelled message of a student that users react to
InitReact ==
    /\ LabelIdle /\ TallyIdle
    /\ \E ts \in PostTimes :
          stream = <<[id |-> 1, present |-> TRUE, sender_id |-> 1, subject |-> Topic(1, mon),
                      timestamp |-> ts, reactions |-> <<>>]>>
    /\ role = InitialRole
    /\ users = NoUsers
    /\ file = <<>>
    /\ messages = <<>>
    /\ pc = "idle"
    /\ request = StudentRequest
    /\ config = Configs[1]
    /\ response = <<>>
    /\ sent = <<>>
    /\ mentions = <<>>
    /\ batch = <<>>
    /\ found_oldest = FALSE

NextReact ==
    \/ \E id \in Ids, r \in ReactionKinds : AddReaction(id, r)
    \/ \E id \in Ids, i \in 1..MaxReactions : RemoveReaction(id, i)
    \/ \E u \in UserIds : ChangeRole(u)
    \/ GetMessages
    \/ TallyAndRespond

SpecReact == InitReact /\ [][NextReact]_vars

\* the labeling scheme resolving a label text and computing its deadline
InitDeadline ==
    /\ scheme \in DeadlineSchemes
    /\ text \in DeadlineTexts
    /\ label = None
    /\ mode = ""
    /\ due = NoDue
    /\ TallyIdle /\ BotIdle

NextDeadline == MessageMatch \/ Deadline

SpecDeadline == InitDeadline /\ [][NextDeadline]_vars

\* the labeling scheme matching topics and messages
InitMatch ==
    /\ scheme \in MatchSchemes
    /\ text \in MatchTexts
    /\ label = None
    /\ mode = ""
    /\ due = NoDue
    /\ TallyIdle /\ BotIdle

NextMatch == TopicMatch \/ MessageMatch

SpecMatch == InitMatch /\ [][NextMatch]_vars

\* do_tally on a list of messages
InitTally ==
    /\ events \in SeqsUpTo(TallyEvents, MaxEvents)
    /\ tally = <<>>
    /\ LabelIdle /\ BotIdle

NextTally == DoTally

SpecTally == InitTally /\ [][NextTally]_vars

\* the users and the events the reports are built from: senders 1 and 2 are students
ReportRole == [u \in UserIds |-> 400]
ReportEvents == [sender_id : {1, 2}, label : TallyLabels, on_time : BOOLEAN, valid : {TRUE}]

\* do_tally and all_counts on a list of messages, the user list empty or complete
InitReport ==
    /\ events \in SeqsUpTo(ReportEvents, MaxEvents)
    /\ tally = <<>>
    /\ LabelIdle
    /\ stream = <<>>
    /\ role = ReportRole
    /\ users \in {NoUsers, ReportRole}
    /\ file = <<>>
    /\ messages = <<>>
    /\ pc = "idle"
    /\ request = NoRequest
    /\ config = NoConfig
    /\ response = <<>>
    /\ sent = <<>>
    /\ mentions = <<>>
    /\ batch = <<>>
    /\ found_oldest = FALSE

NextReport == DoTally \/ AllCounts

SpecReport == InitReport /\ [][NextReport]_vars

\* the streams handle_message finds: empty, or one labelled message of the student
HandleStreams ==
    {<<>>} \cup
    {<<[id |-> 1, present |-> TRUE, sender_id |-> 1, subject |-> Topic(1, mon),
        timestamp |-> ts, reactions |-> <<>>]>> : ts \in PostTimes}

\* the bot handling the messages sent to it
InitHandle ==
    /\ LabelIdle /\ TallyIdle
    /\ stream \in HandleStreams
    /\ role = InitialRole
    /\ users = NoUsers
    /\ file = <<>>
    /\ messages = <<>>
    /\ pc = "idle"
    /\ request = NoRequest
    /\ config = NoConfig
    /\ response = <<>>
    /\ sent = <<>>
    /\ mentions = <<>>
    /\ batch = <<>>
    /\ found_oldest = FALSE

NextHandle ==
    \/ \E m \in Requests, mentioning \in BOOLEAN : Receive(m, mentioning)
    \/ ClearFetch
    \/ ClearDelete
    \/ Route
    \/ TallyAndRespond

SpecHandle == InitHandle /\ [][NextHandle]_vars

\* the lists of messages mentioning the bot, numbered by the server
MentionLists ==
    {[i \in DOMAIN q |-> [id |-> i, type |-> q[i]]] : q \in SeqsUpTo({"stream", "private"}, MaxMentions)}

\* clear_stream_mentions called on a finite set of mentions; the loop is one thread
\* of control, which takes its next step whenever it has one
InitClear ==
    /\ LabelIdle /\ TallyIdle
    /\ stream = <<>>
    /\ role = InitialRole
    /\ users = NoUsers
    /\ file = <<>>
    /\ messages = <<>>
    /\ pc = "fetch"
    /\ request = NoRequest
    /\ config = NoConfig
    /\ response = <<>>
    /\ sent = <<>>
    /\ mentions \in MentionLists
    /\ batch = <<>>
    /\ found_oldest = FALSE

NextClear == ClearFetch \/ ClearDelete

SpecClear == InitClear /\ [][NextClear]_vars /\ WF_vars(ClearFetch) /\ WF_vars(ClearDelete)

----------------------------------------------------------------------------
(* Properties of _deadline, under SpecDeadline                             *)

GapSet == {scheme.gaps[i] : i \in DOMAIN scheme.gaps}

\* the week reached by going through the gaps in list order, each gap compared
\* with the week as shifted so far
RunningWeek(gaps, w) ==
    LET f[i \in 0..Len(gaps)] ==
            IF i = 0 THEN w ELSE f[i - 1] + (IF gaps[i] <= f[i - 1] THEN 1 ELSE 0)
    IN  f[Len(gaps)]

\* the week number plus the number of gap entries <= the week number of the label
RawWeek(gaps, w) == w + Cardinality({i \in DOMAIN gaps : gaps[i] <= w})

DeadlineOfWeek(E, d) == SecondsPerHour * scheme.due_time + SecondsPerDay * (7 * (E - 1) + d)

\* C1 as stated: the deadline of a resolved label (w, d) is start + 7*(E-1) days + d
\* days with E = w + the number of gaps g <= w, every gap compared with the raw w.
C1_DeadlineRawWeek ==
    due # NoDue => due = DeadlineOfWeek(RawWeek(scheme.gaps, label.week), label.day)

\* C1 amended: the deadline of a resolved label (w, d) is start + 7*(E-1) days + d
\* days, where E starts at w and, for each gap g in list order, grows by one when
\* g <= E (the week as shifted by the gaps before g).
C1_DeadlineRunningWeek ==
    due # NoDue => due = DeadlineOfWeek(RunningWeek(scheme.gaps, label.week), label.day)

\* a deadline was computed where the running comparison shifts further than the raw one
C1_Witness ==
    /\ due # NoDue
    /\ scheme.gaps = <<2, 3>>
    /\ label.week = 2
    /\ RunningWeek(scheme.gaps, label.week) = 4
    /\ RawWeek(scheme.gaps, label.week) = 3

Ascending(gaps) == \A i, j \in DOMAIN gaps : i < j => gaps[i] < gaps[j]

\* the calendar week an instant falls in, week 1 being the week of start_date
CalendarWeek(t) == (t \div (7 * SecondsPerDay)) + 1

\* C2: for distinct gaps >= 1 in ascending order and a label with week w >= 1, the
\* calendar week of the deadline is no gap and is the w-th calendar week that is no gap.
C2_SkipCalendarWeeks ==
    (due # NoDue /\ label.week >= 1 /\ Ascending(scheme.gaps) /\ \A g \in GapSet : g >= 1)
        => LET c == CalendarWeek(due)
           IN  /\ c \notin GapSet
               /\ Cardinality({k \in 1..c : k \notin GapSet}) = label.week

\* the docstring's example: gaps [2, 4], w3 falls in calendar week 5
C2_Witness ==
    /\ due # NoDue
    /\ scheme.gaps = <<2, 4>>
    /\ label.week = 3
    /\ CalendarWeek(due) = 5

\* C3: whatever the gaps list (any order, repeats), labels of the same weekday
\* with week numbers w1 < w2 have deadline(w1) < deadline(w2).
C3_GapMonotonicity ==
    due # NoDue =>
        \A w \in 0..(MaxLabelWeek + 1) :
            LET other == _deadline(scheme, StandardLabel(LabelText(w, mon), w, label.day))
            IN  /\ w < label.week => other < due
                /\ w > label.week => due < other

\* a deadline computed under an unordered gaps list with a repeat and a gap behind the label
C3_Witness ==
    /\ due # NoDue
    /\ scheme.gaps = <<4, 2, 2>>
    /\ label.week = 2

----------------------------------------------------------------------------
(* Properties of topic_match and message_match, under SpecMatch            *)

\* positions i..e of s spell w, one or more digits, a weekday name
IsLabelAt(s, i, e) ==
    /\ e - i >= 4
    /\ s[i] = "w"
    /\ \A k \in (i + 1)..(e - 3) : s[k] \in Digits
    /\ SubSeq(s, e - 2, e) \in DayNames

\* the grammar matches of the text for the method that was called: bare for
\* message_match, between square brackets for topic_match
GrammarMatches ==
    {p \in (1..Len(text)) \X (1..Len(text)) :
        /\ IsLabelAt(text, p[1], p[2])
        /\ mode = "topic" =>
              /\ p[1] > 1 /\ text[p[1] - 1] = "["
              /\ p[2] < Len(text) /\ text[p[2] + 1] = "]"}

\* the leftmost grammar match
FirstMatch == CHOOSE p \in GrammarMatches : \A q \in GrammarMatches : p[1] <= q[1]

MatchString(p) == SubSeq(text, p[1], p[2])
MatchWeek(p) == int(SubSeq(text, p[1] + 1, p[2] - 3))
MatchDay(p) == SubSeq(text, p[2] - 2, p[2])

WellFormed(p) ==
    /\ MatchWeek(p) <= scheme.max_week
    /\ MatchDay(p) \in scheme.due_days
    /\ MatchString(p) \notin scheme.exceptions

\* C4: when the first grammar match of the string is L with week W and weekday D,
\* the match returns a Label iff W <= max_week, D is in due_days and L is not in
\* exceptions, and None otherwise; a label listed in exceptions never resolves.
C4_WellFormedness ==
    (mode # "" /\ GrammarMatches # {}) =>
        /\ label # None <=> WellFormed(FirstMatch)
        /\ MatchString(FirstMatch) \in scheme.exceptions => label = None

\* message_match met a label that is an exception though its week and weekday are allowed
C4_Witness ==
    /\ mode = "message"
    /\ GrammarMatches # {}
    /\ MatchString(FirstMatch) \in scheme.exceptions
    /\ MatchWeek(FirstMatch) <= scheme.max_week
    /\ MatchDay(FirstMatch) \in scheme.due_days
    /\ label = None

\* C10: only the leftmost grammar match is resolved: if it is excluded the result is
\* None whatever follows it in the text, and if it is well-formed the returned label
\* is that match.
C10_FirstMatchOnly ==
    (mode # "" /\ GrammarMatches # {}) =>
        IF WellFormed(FirstMatch)
        THEN label = StandardLabel(MatchString(FirstMatch), MatchWeek(FirstMatch),
                                   days_of_week(MatchDay(FirstMatch)))
        ELSE label = None

\* topic_match returned None on a topic whose first bracketed match is excluded and
\* whose second one is well-formed
C10_Witness ==
    /\ mode = "topic"
    /\ label = None
    /\ \E p \in GrammarMatches : p # FirstMatch /\ WellFormed(p)
    /\ ~WellFormed(FirstMatch)

----------------------------------------------------------------------------
(* Properties of do_tally, under SpecTally                                 *)

Elements(q) == {q[i] : i \in DOMAIN q}

\* do_tally has been called on events
Tallied == events = <<>> \/ tally # <<>>

Pairs(msgs) == {<<msgs[i].sender_id, msgs[i].label>> : i \in DOMAIN msgs}

EarnsCredit(m) == m.on_time /\ m.valid

\* the labels a tally lists for sender x under key "credit" / "no_credit"
CreditOf(t, x) == UNION {Elements(t[i][2].credit) : i \in {j \in DOMAIN t : t[j][1] = x}}
NoCreditOf(t, x) == UNION {Elements(t[i][2].no_credit) : i \in {j \in DOMAIN t : t[j][1] = x}}

\* the (sender, label) pairs a tally credits and those it does not
Classification(t) ==
    [credit |-> UNION {{<<t[i][1], a>> : a \in CreditOf(t, t[i][1])} : i \in DOMAIN t},
     no_credit |-> UNION {{<<t[i][1], a>> : a \in NoCreditOf(t, t[i][1])} : i \in DOMAIN t}]

Permuted(msgs, f) == [i \in DOMAIN msgs |-> msgs[f[i]]]

\* C5: a (sender, label) pair of the events is under "credit" iff at least one of
\* its events is on time and valid, and under "no_credit" otherwise; and every
\* permutation of the events is classified the same way.
C5_CreditOrReduction ==
    Tallied =>
        /\ \A p \in Pairs(events) :
              LET some == \E i \in DOMAIN events :
                              /\ <<events[i].sender_id, events[i].label>> = p
                              /\ EarnsCredit(events[i])
              IN  /\ p[2] \in CreditOf(tally, p[1]) <=> some
                  /\ p[2] \in NoCreditOf(tally, p[1]) <=> ~some
        /\ \A f \in Permutations(DOMAIN events) :
              Classification(do_tally(Permuted(events, f))) = Classification(tally)

\* three events of one pair, only the middle one on time and valid: credit
C5_Witness ==
    /\ Len(events) = 3
    /\ Cardinality(Pairs(events)) = 1
    /\ ~EarnsCredit(events[1]) /\ EarnsCredit(events[2]) /\ ~EarnsCredit(events[3])
    /\ Len(tally) = 1
    /\ tally[1][2].credit = <<events[1].label>>
    /\ tally[1][2].no_credit = <<>>

----------------------------------------------------------------------------
(* Properties of get_messages, under Spec and SpecReact                    *)

\* the messages the server holds now
Present == {stream[i] : i \in {j \in Ids : stream[j].present}}

\* the role the user list supplies for a user: the stored one, else the server's
RoleSeen(u) == IF users[u] # 0 THEN users[u] ELSE role[u]

\* the label of a topic and its deadline under the stream's scheme
TopicLabel(subject) == topic_match(scheme, subject)
TopicDeadline(subject) == _deadline(scheme, TopicLabel(subject))

\* a fetched message get_messages keeps
Kept(m) ==
    /\ FullName(m.sender_id) # "Notification Bot"
    /\ RoleSeen(m.sender_id) > 300
    /\ TopicLabel(m.subject) # None

Rows(id) == {k \in DOMAIN file : file[k].id = id}

\* some reaction carries the invalid emoji and its author is privileged
Invalidated(m) ==
    \E i \in DOMAIN m.reactions :
        /\ m.reactions[i].emoji_name = invalid_emoji
        /\ RoleSeen(m.reactions[i].user) <= 300

\* C6: the stored on_time flag of a kept event is true iff its timestamp <= the
\* deadline of its label: at the deadline on time, one second later late.
C6_OnTimeBoundary ==
    /\ \A k \in DOMAIN file :
          file[k].on_time =
              PyStr(file[k].timestamp <= _deadline(scheme, message_match(scheme, file[k].label)))
    /\ pc = "got" =>
          \A m \in Present : Kept(m) =>
              \E k \in Rows(m.id) :
                  /\ file[k].timestamp = m.timestamp
                  /\ file[k].label = TopicLabel(m.subject).label
                  /\ ReadRow(file[k]).on_time <=> m.timestamp <= TopicDeadline(m.subject)
                  /\ messages[k].on_time <=> m.timestamp <= TopicDeadline(m.subject)

\* a message stamped at its deadline stored on time, one stamped a second later stored late
C6_Witness ==
    /\ pc = "got"
    /\ \E m1, m2 \in Present :
          /\ Kept(m1) /\ Kept(m2)
          /\ m1.timestamp = TopicDeadline(m1.subject)
          /\ m2.timestamp = TopicDeadline(m2.subject) + 1
          /\ \E k \in Rows(m1.id) : file[k].on_time = "True"
          /\ \E k \in Rows(m2.id) : file[k].on_time = "False"

\* C7: the stored valid flag of a kept event is false iff some reaction on it has the
\* invalid emoji and an author whose role is <= 300; the invalid emoji of a member
\* and other emoji leave it true, whatever the order of the reactions.
C7_ValidDerivation ==
    pc = "got" =>
        \A m \in Present : Kept(m) =>
            /\ \E k \in Rows(m.id) :
                  /\ ReadRow(file[k]).valid <=> ~Invalidated(m)
                  /\ messages[k].valid <=> ~Invalidated(m)
            /\ \A f \in Permutations(DOMAIN m.reactions) :
                  check_valid([i \in DOMAIN m.reactions |-> m.reactions[f[i]]], users, role).valid
                      <=> ~Invalidated(m)

\* a member's invalid emoji followed by a moderator's: stored invalid
C7_Witness ==
    /\ pc = "got"
    /\ \E m \in Present :
          /\ Kept(m)
          /\ Len(m.reactions) = 2
          /\ m.reactions[1].emoji_name = invalid_emoji /\ RoleSeen(m.reactions[1].user) > 300
          /\ m.reactions[2].emoji_name = invalid_emoji /\ RoleSeen(m.reactions[2].user) <= 300
          /\ \E k \in Rows(m.id) : file[k].valid = "False"

\* the record get_messages derives from a fetched message
Derived(m) ==
    [id |-> m.id, sender_id |-> m.sender_id, sender_name |-> FullName(m.sender_id),
     label |-> TopicLabel(m.subject).label, timestamp |-> m.timestamp,
     on_time |-> (m.timestamp <= TopicDeadline(m.subject)), valid |-> ~Invalidated(m)]

\* C8: the store holds at most one record per event id; the record of an id kept in
\* the latest fetch is the one derived from that fetch; and ingesting the same
\* fetch again leaves the store unchanged.
C8_IdempotentMerge ==
    /\ \A j, k \in DOMAIN file : file[j].id = file[k].id => j = k
    /\ pc = "got" =>
          /\ \A m \in Present : Kept(m) =>
                \E k \in Rows(m.id) : file[k] = WriteRow(Derived(m)) /\ messages[k] = Derived(m)
          /\ LET again == get_messages(scheme, file, stream, users, role)
             IN  /\ write(DictValues(again.messages)) = file
                 /\ DictValues(again.messages) = messages

\* the only message ever posted was stored under one label (the last tally lists it)
\* and is now stored once, under the label of the topic it was moved to
C8_Witness ==
    /\ pc = "got"
    /\ Len(stream) = 1
    /\ stream[1].present /\ Kept(stream[1])
    /\ Len(tally) = 1
    /\ Elements(tally[1][2].credit) \cup Elements(tally[1][2].no_credit)
           = {LabelText(1, mon)}
    /\ Len(file) = 1
    /\ file[1].id = 1
    /\ file[1].label = LabelText(2, mon)

\* C9: every record get_messages returns is a message that is now in the stream, by
\* a sender who is not the Notification Bot and whose role is > 300, in a topic that
\* matches the labeling scheme.
C9_ReturnedAreMemberMatches ==
    pc = "got" =>
        \A k \in DOMAIN messages :
            \E m \in Present :
                /\ m.id = messages[k].id
                /\ FullName(m.sender_id) # "Notification Bot"
                /\ role[m.sender_id] > 300
                /\ TopicLabel(m.subject) # None

----------------------------------------------------------------------------
(* Properties of do_tally and all_counts, under SpecTally and SpecReport   *)

\* no element of the list occurs in it twice
NoRepeats(q) == \A i, j \in DOMAIN q : q[i] = q[j] => i = j

\* the labels of the events of sender x
LabelsOf(msgs, x) == {msgs[i].label : i \in {j \in DOMAIN msgs : msgs[j].sender_id = x}}

\* C13: the keys of the dict do_tally returns are exactly the sender ids of the
\* events, and for each of them the credit and no_credit lists hold no label twice,
\* share no label, and together hold exactly the labels of that sender's events.
C13_TallyPartition ==
    Tallied =>
        /\ NoRepeats([i \in DOMAIN tally |-> tally[i][1]])
        /\ {tally[i][1] : i \in DOMAIN tally} = {events[i].sender_id : i \in DOMAIN events}
        /\ \A i \in DOMAIN tally :
              LET credit == tally[i][2].credit
                  no_credit == tally[i][2].no_credit
              IN  /\ NoRepeats(credit)
                  /\ NoRepeats(no_credit)
                  /\ Elements(credit) \cap Elements(no_credit) = {}
                  /\ Elements(credit) \cup Elements(no_credit) = LabelsOf(events, tally[i][1])

\* one sender, a label posted late and then on time and another label posted late:
\* the first label is credited once, the second is not credited
C13_Witness ==
    /\ Len(events) = 3
    /\ events[1].sender_id = events[2].sender_id /\ events[2].sender_id = events[3].sender_id
    /\ events[1].label = events[2].label /\ events[3].label # events[1].label
    /\ ~EarnsCredit(events[1]) /\ EarnsCredit(events[2]) /\ ~EarnsCredit(events[3])
    /\ Len(tally) = 1
    /\ tally[1][2].credit = <<events[1].label>>
    /\ tally[1][2].no_credit = <<events[3].label>>

\* the lines of a response: its pieces between the line breaks
RECURSIVE LinesFrom(_, _)
LinesFrom(resp, line) ==
    IF Len(resp) = 0 THEN (IF Len(line) = 0 THEN <<>> ELSE <<line>>)
    ELSE IF Head(resp) = "\n" THEN <<line>> \o LinesFrom(Tail(resp), <<>>)
    ELSE LinesFrom(Tail(resp), Append(line, Head(resp)))

Lines(resp) == LinesFrom(resp, <<>>)

\* the rows of the report that carry the name of user u
RowsOf(rows, u) == {k \in 2..Len(rows) : rows[k][1] = FullName(u)}

\* all_counts has built the report of the tally
Reported == response # <<>>

\* C12: after the header, all_counts emits exactly one row per key of the tally, the
\* row's count is the length of that sender's credit list, and a user of the user
\* list who has no event gets no row.
C12_RosterReport ==
    Reported =>
        LET rows == Lines(response)
        IN  /\ rows[1] = <<"name,email,count">>
            /\ Len(rows) = 1 + Cardinality(DictKeys(tally))
            /\ \A x \in DictKeys(tally) :
                  /\ Cardinality(RowsOf(rows, x)) = 1
                  /\ \A k \in RowsOf(rows, x) :
                        rows[k] = <<FullName(x), ",", DeliveryEmail(x), ",">>
                                   \o str(Len(DictGet(tally, x).credit))
            /\ \A u \in UserIds :
                  (\A i \in DOMAIN events : events[i].sender_id # u) => RowsOf(rows, u) = {}

\* one student with two credited labels, one with a late message only, and a third
\* user who is in the user list and sent nothing: two rows, counts 2 and 0
C12_Witness ==
    /\ Reported
    /\ Len(events) = 3
    /\ events[1].sender_id = 1 /\ events[2].sender_id = 1 /\ events[3].sender_id = 2
    /\ events[1].label # events[2].label
    /\ EarnsCredit(events[1]) /\ EarnsCredit(events[2]) /\ ~EarnsCredit(events[3])
    /\ users[3] # 0
    /\ Lines(response) = <<<<"name,email,count">>,
                           <<FullName(1), ",", DeliveryEmail(1), ",", "2">>,
                           <<FullName(2), ",", DeliveryEmail(2), ",", "0">>>>

----------------------------------------------------------------------------
(* Properties of handle_message, under SpecHandle                          *)

\* handle_message has returned from the call for request
Returned == pc = "idle" /\ request # NoRequest

\* the content of request, once minimized, did not contain "clear": a configuration
\* is looked for only then, and an unmatched content is left as minimized
NotClear == config # NoConfig \/ ~contains(request.content, clear)

\* the private messages sent to the sender of request
ToSender == {i \in DOMAIN sent : sent[i].type = "private" /\ sent[i].to = <<request.sender_id>>}

\* the contents of the messages sent, one after the other
RECURSIVE SentText(_)
SentText(q) == IF Len(q) = 0 THEN <<>> ELSE Head(q).content \o SentText(Tail(q))

\* the names of the users, in lower case
LowerName(u) ==
    CASE u = 1 -> <<"a", "d", "a">>
      [] u = 2 -> <<"t", "u", "r", "i", "n", "g">>
      [] u = 3 -> <<"n", "o", "t", "i", "f", "i", "c", "a", "t", "i", "o", "n", " ", "b", "o", "t">>

\* the students of the user list whose name contains a nonempty content
Named(content) ==
    {u \in UserIds : users[u] > 300 /\ Len(content) > 0 /\ contains(LowerName(u), content)}

\* the verbose count of student u
Verbose(u) == <<FullName(u), "\n">> \o individual_count(tally, u) \o <<"\n", "\n">>

\* C11: when handle_message returns from a message whose content does not contain
\* "clear", at least one private message addressed to the sender has been sent; a
\* moderator whose configuration matched has been sent the CSV of all counts when the
\* rest of the message names no student, and the verbose counts of the students it
\* names otherwise.
C11_RespondsToEveryMessage ==
    (Returned /\ NotClear) =>
        /\ ToSender # {}
        /\ (role[request.sender_id] <= 300 /\ config # NoConfig) =>
               IF Named(request.content) = {}
               THEN SentText(sent) = all_counts(tally, users, role).response
               ELSE \A u \in Named(request.content) : contains(SentText(sent), Verbose(u))

----------------------------------------------------------------------------
(* Properties of clear_stream_mentions, under SpecClear                    *)

\* the stream messages mentioning the bot that are not deleted
StreamMentions == {i \in DOMAIN mentions : mentions[i].type = "stream"}

\* C14: for every finite list of stream and private messages mentioning the bot, the
\* fetch-delete loop of clear_stream_mentions eventually exits, and when it has
\* exited no stream message mentioning the bot is left.
C14_ClearTerminatesAndDeletes == <>(pc = "cleared" /\ StreamMentions = {})

====
